---- MODULE Spec2Model ----
(***************************************************************************)
(* Model of src/score_converter.py (class GPAConverter): the scale tables, *)
(* the step conversion _gpa, the credit-weighted averages get_iaa and      *)
(* get_gpa, and the enrichment done by export_translated_transcript.       *)
(*                                                                         *)
(* Units.  Decimal grades and the tables' 'decimal' thresholds are held in *)
(* hundredths (9.7 is 970), GPA values in tenths (3.9 is 39), and credits  *)
(* in eighteenths of a credit point: get_grade_records stores              *)
(* int(cell) / 18, so a cell of 54 is the credit 54/18 = 3.  A quotient is *)
(* kept exact as the pair (num, den); the source computes it in double     *)
(* precision and prints it with '%.2f'.                                    *)
(***************************************************************************)
EXTENDS Integers, Sequences, FiniteSets, TLC

VARIABLES
    transcript,  \* the instance attribute self.transcript, or NoAttr
    call,        \* the most recent call: its name and arguments
    outcome,     \* what that call printed, returned or raised
    io,          \* what that call did outside the instance
    passed       \* the caller's transcript argument as the call left it

vars == <<transcript, call, outcome, io, passed>>

(***************************************************************************)
(* Bounds of the model.                                                    *)
(***************************************************************************)
MaxRows == 2      \* rows of the scraped page
MaxArgLen == 1    \* rows of an explicitly passed transcript
Margin == 100     \* hundredths below 0 and above 10 tried on _gpa

(***************************************************************************)
(* GPAConverter.scale                                                      *)
(***************************************************************************)
E(d, g) == [decimal |-> d, grade |-> g]

scale1 ==
    << E(900, 40), E(700, 30), E(500, 20), E(300, 10), E(0, 0) >>

scale2 ==
    << E(970, 40), E(960, 39), E(950, 38), E(930, 37), E(910, 36),
       E(900, 35), E(880, 34), E(870, 33), E(850, 32), E(840, 31),
       E(820, 30), E(800, 29), E(790, 28), E(780, 27), E(770, 26),
       E(760, 25), E(750, 24), E(740, 23), E(730, 22), E(720, 21),
       E(710, 20), E(700, 19), E(690, 18), E(680, 17), E(670, 16),
       E(660, 15), E(650, 14), E(640, 13), E(620, 12), E(610, 11),
       E(600, 10), E(0, 0) >>

scale3 ==
    << E(930, 40), E(900, 37), E(870, 33), E(830, 30), E(800, 27),
       E(770, 23), E(730, 20), E(700, 17), E(670, 13), E(650, 10),
       E(0, 0) >>

\* faulty variant: scale 1 ends at threshold 1 instead of 0
scale_floor ==
    (1 :> << E(900, 40), E(700, 30), E(500, 20), E(300, 10), E(100, 0) >>)
    @@ (2 :> scale2) @@ (3 :> scale3)

scale ==
    (1 :> scale1) @@ (2 :> scale2) @@ (3 :> scale3)

(***************************************************************************)
(* Values                                                                  *)
(***************************************************************************)
None == [kind |-> "None"]
NoAttr == [kind |-> "unset"]
DataFrame(columns, rows) ==
    [kind |-> "DataFrame", columns |-> columns, rows |-> rows]
Raised(error) == [kind |-> "raised", error |-> error]
Returned(value) == [kind |-> "returned", value |-> value]
Printed(label, num, den) ==
    [kind |-> "printed", label |-> label, num |-> num, den |-> den]
Pending == [kind |-> "pending"]
NoIO == [fetched |-> FALSE, read |-> FALSE, written |-> None]

RecordColumns == {"code", "subject", "credits", "grade"}

\* pd.DataFrame(conversion list) keeps the list's order
Conversion(scale_id) == scale[scale_id]

(***************************************************************************)
(* GPAConverter._gpa                                                       *)
(*   max(conversion.loc[conversion.decimal <= grade, 'grade'])             *)
(***************************************************************************)
Column(rows, name) == [i \in 1 .. Len(rows) |-> rows[i][name]]

PyMax(s) ==
    IF Len(s) = 0
    THEN Raised("ValueError")
    ELSE Returned(CHOOSE m \in {s[i] : i \in 1 .. Len(s)} :
                      \A j \in 1 .. Len(s) : s[j] <= m)

\* faulty variants of _gpa: min for max, == and < for <=
PyMin(s) ==
    IF Len(s) = 0
    THEN Raised("ValueError")
    ELSE Returned(CHOOSE m \in {s[i] : i \in 1 .. Len(s)} :
                      \A j \in 1 .. Len(s) : m <= s[j])

_gpa_min(grade, conversion) ==
    PyMin(Column(SelectSeq(conversion, LAMBDA e : e.decimal <= grade), "grade"))

_gpa_eq(grade, conversion) ==
    PyMax(Column(SelectSeq(conversion, LAMBDA e : e.decimal = grade), "grade"))

_gpa_strict(grade, conversion) ==
    PyMax(Column(SelectSeq(conversion, LAMBDA e : e.decimal < grade), "grade"))

_gpa(grade, conversion) ==
    PyMax(Column(SelectSeq(conversion, LAMBDA e : e.decimal <= grade), "grade"))

(***************************************************************************)
(* GPAConverter.get_grade_records                                          *)
(* A page is the sequence of its 'rich-table-row' rows; a cell is a number *)
(* the parser accepts, a text it rejects (ValueError, such as concept      *)
(* "I"), or absent (IndexError).                                           *)
(***************************************************************************)
Num(v) == [kind |-> "number", value |-> v]
Text == [kind |-> "text"]
Absent == [kind |-> "absent"]
PageRow(code, credits, grade) ==
    [code |-> code, subject |-> "subject " \o code,
     credits |-> credits, grade |-> grade]

PageRows ==
    { PageRow("A", Num(54), Num(950)),
      PageRow("B", Num(18), Num(500)),
      PageRow("C", Num(0), Num(890)),
      PageRow("E", Absent, Num(700)),
      PageRow("F", Num(36), Text) }

\* int(subject[2].contents[0]) / 18, then float(subject[3].contents[0])
ParseRow(row) ==
    IF row.credits.kind = "absent" THEN Raised("IndexError")
    ELSE IF row.credits.kind = "text" THEN Raised("ValueError")
    ELSE IF row.grade.kind = "absent" THEN Raised("IndexError")
    ELSE IF row.grade.kind = "text" THEN Raised("ValueError")
    ELSE Returned([code |-> row.code, subject |-> row.subject,
                   credits |-> row.credits.value,
                   grade |-> row.grade.value])

BoundedSeq(S, n) == UNION {[1 .. k -> S] : k \in 0 .. n}

Pages == BoundedSeq(PageRows, MaxRows)

\* the DataFrame of the rows that parsed; pd.DataFrame([]) has no columns
get_grade_records(page) ==
    LET kept == SelectSeq(page, LAMBDA r : ParseRow(r).kind = "returned")
        subjects == [i \in 1 .. Len(kept) |-> ParseRow(kept[i]).value]
    IN DataFrame(IF Len(subjects) = 0 THEN {} ELSE RecordColumns, subjects)

(***************************************************************************)
(* The weighted averages of get_iaa and get_gpa                            *)
(***************************************************************************)
RECURSIVE PySum(_)
PySum(s) == IF Len(s) = 0 THEN 0 ELSE s[1] + PySum(Tail(s))

Times(a, b) == [i \in 1 .. Len(a) |-> a[i] * b[i]]

\* faulty variant: numpy's division, which answers nan for 0 / 0
TrueDiv_nan(label, num, den) ==
    IF den = 0 THEN [kind |-> "printed", label |-> label, nan |-> TRUE]
    ELSE Printed(label, num, den)

\* the builtin sum() iterates a Series as Python numbers (pandas >= 0.21),
\* so the operands are Python numbers and a zero divisor raises
TrueDiv(label, num, den) ==
    IF den = 0 THEN Raised("ZeroDivisionError") ELSE Printed(label, num, den)

\* 'IAA: %.2f' % (sum(transcript.credits * transcript.grade) / sum(transcript.credits))
Iaa(frame) ==
    IF "credits" \notin frame.columns THEN Raised("AttributeError")
    ELSE TrueDiv("IAA",
                 PySum(Times(Column(frame.rows, "credits"),
                             Column(frame.rows, "grade"))),
                 PySum(Column(frame.rows, "credits")))

\* transcript.loc[:, 'grade'].apply(self._gpa, args=(conversion,))
Apply_gpa(frame, conversion) ==
    [i \in 1 .. Len(frame.rows) |-> _gpa(frame.rows[i].grade, conversion)]

Values(results) == [i \in 1 .. Len(results) |-> results[i].value]

\* faulty variant: the plain mean of the converted grades
Gpa_unweighted(frame, conversion) ==
    IF "credits" \notin frame.columns THEN Raised("AttributeError")
    ELSE LET gpas == Apply_gpa(frame, conversion)
         IN IF \E i \in 1 .. Len(gpas) : gpas[i].kind = "raised"
            THEN Raised("ValueError")
            ELSE TrueDiv("GPA", PySum(Values(gpas)), Len(gpas))

\* 'GPA: %.2f' % (sum(transcript.credits * <applied>) / sum(transcript.credits))
Gpa(frame, conversion) ==
    IF "credits" \notin frame.columns THEN Raised("AttributeError")
    ELSE LET gpas == Apply_gpa(frame, conversion)
         IN IF \E i \in 1 .. Len(gpas) : gpas[i].kind = "raised"
            THEN Raised("ValueError")
            ELSE TrueDiv("GPA",
                         PySum(Times(Column(frame.rows, "credits"),
                                     Values(gpas))),
                         PySum(Column(frame.rows, "credits")))

After(stored, result, effects, argument) ==
    [transcript |-> stored, outcome |-> result, io |-> effects,
     passed |-> argument]

(***************************************************************************)
(* GPAConverter.get_iaa(transcript=None); page is what the portal serves   *)
(* if the call fetches.                                                    *)
(***************************************************************************)
get_iaa(self, arg, page) ==
    LET fetch == arg = None /\ self = NoAttr
        stored == IF fetch THEN get_grade_records(page) ELSE self
        used == IF arg = None THEN stored ELSE arg
    IN After(stored, Iaa(used), [NoIO EXCEPT !.fetched = fetch], arg)

(***************************************************************************)
(* GPAConverter.get_gpa(scale_id=1, transcript=None)                       *)
(***************************************************************************)
\* faulty variant: the scale is looked up after the transcript is settled
get_gpa_fetch_first(self, scale_id, arg, page) ==
    LET fetch == arg = None /\ self = NoAttr
        stored == IF fetch THEN get_grade_records(page) ELSE self
        used == IF arg = None THEN stored ELSE arg
    IN After(stored,
             IF scale_id \notin DOMAIN scale THEN Raised("KeyError")
             ELSE Gpa(used, Conversion(scale_id)),
             [NoIO EXCEPT !.fetched = fetch], arg)

get_gpa(self, scale_id, arg, page) ==
    IF scale_id \notin DOMAIN scale
    THEN After(self, Raised("KeyError"), NoIO, arg)
    ELSE LET fetch == arg = None /\ self = NoAttr
             stored == IF fetch THEN get_grade_records(page) ELSE self
             used == IF arg = None THEN stored ELSE arg
         IN After(stored, Gpa(used, Conversion(scale_id)),
                  [NoIO EXCEPT !.fetched = fetch], arg)

(***************************************************************************)
(* GPAConverter.export_translated_transcript(scale_id=1); file is          *)
(* ./translated.xls as read with names=['code', 'subjects'], or None when  *)
(* it cannot be read.                                                      *)
(***************************************************************************)
Xls(rows) == [kind |-> "xls", rows |-> rows]
T(code, subjects) == [code |-> code, subjects |-> subjects]

TranslationFiles ==
    { None,
      Xls(<< >>),
      Xls(<< T("A", "course A") >>),
      Xls(<< T("B", "course B"), T("A", "course A"), T("B", "course B bis") >>) }

\* translated.loc[translated.code == i, 'subjects'].iloc[0]
\*     if i in list(translated.code) else ''
\* faulty variant: .iloc[-1] for .iloc[0]
Translate_last(translated, i) ==
    LET hits == SelectSeq(translated, LAMBDA t : t.code = i)
    IN IF Len(hits) > 0 THEN hits[Len(hits)].subjects ELSE ""

Translate(translated, i) ==
    LET hits == SelectSeq(translated, LAMBDA t : t.code = i)
    IN IF Len(hits) > 0 THEN hits[1].subjects ELSE ""

ExportColumns == {"code", "credits", "grade", "gpa", "subject", "translated"}

Enrich(frame, conversion, translated) ==
    LET gpas == Apply_gpa(frame, conversion)
    IN DataFrame(ExportColumns,
                 [i \in 1 .. Len(frame.rows) |->
                     [code |-> frame.rows[i].code,
                      credits |-> frame.rows[i].credits,
                      grade |-> frame.rows[i].grade,
                      gpa |-> gpas[i].value,
                      subject |-> frame.rows[i].subject,
                      translated |-> Translate(translated, frame.rows[i].code)]])

Export(self, conversion, file, inplace) ==
    LET didRead == [NoIO EXCEPT !.read = TRUE]
    IN IF file = None
       THEN After(self, Raised("FileNotFoundError"), didRead, None)
       ELSE IF self = NoAttr \/ "code" \notin self.columns
       THEN After(self, Raised("AttributeError"), didRead, None)
       ELSE IF \E i \in 1 .. Len(self.rows) :
                   _gpa(self.rows[i].grade, conversion).kind = "raised"
       THEN After(self, Raised("ValueError"), didRead, None)
       ELSE LET out == Enrich(self, conversion, file.rows)
            IN After(IF inplace THEN out ELSE self,
                     [kind |-> "saved"],
                     [didRead EXCEPT !.written = out], None)

\* faulty variant: self.transcript for self.transcript.copy()
export_without_copy(self, scale_id, file) ==
    IF scale_id \notin DOMAIN scale
    THEN After(self, Raised("KeyError"), NoIO, None)
    ELSE Export(self, Conversion(scale_id), file, TRUE)

export_translated_transcript(self, scale_id, file) ==
    IF scale_id \notin DOMAIN scale
    THEN After(self, Raised("KeyError"), NoIO, None)
    ELSE Export(self, Conversion(scale_id), file, FALSE)

(***************************************************************************)
(* The calls a client makes on a constructed instance                      *)
(***************************************************************************)
ScaleIds == DOMAIN scale \cup {99}

\* an explicit transcript may hold any record, a negative grade included
Records ==
    {ParseRow(r).value :
        r \in {x \in PageRows \cup {PageRow("D", Num(18), Num(0 - 50))} :
                  ParseRow(x).kind = "returned"}}

Arguments ==
    {None, DataFrame({}, << >>)}
    \cup {DataFrame(RecordColumns, rows) : rows \in BoundedSeq(Records, MaxArgLen)}

\* the page matters only to a call that fetches
Served(fetch) == IF fetch THEN Pages ELSE {<< >>}

Becomes(after) ==
    /\ transcript' = after.transcript
    /\ outcome' = after.outcome
    /\ io' = after.io
    /\ passed' = after.passed

Call_get_grade_records ==
    \E page \in Pages :
        /\ call' = [op |-> "get_grade_records"]
        /\ Becomes(After(get_grade_records(page),
                         Returned("self.transcript"),
                         [NoIO EXCEPT !.fetched = TRUE], None))

Call_get_iaa ==
    \E arg \in Arguments :
        \E page \in Served(arg = None /\ transcript = NoAttr) :
            /\ call' = [op |-> "get_iaa", transcript |-> arg]
            /\ Becomes(get_iaa(transcript, arg, page))

Call_get_gpa ==
    \E scale_id \in ScaleIds, arg \in Arguments :
        \E page \in Served(arg = None /\ transcript = NoAttr) :
            /\ call' = [op |-> "get_gpa", scale_id |-> scale_id,
                        transcript |-> arg]
            /\ Becomes(get_gpa(transcript, scale_id, arg, page))

Call_export_translated_transcript ==
    \E scale_id \in ScaleIds, file \in TranslationFiles :
        /\ call' = [op |-> "export_translated_transcript",
                    scale_id |-> scale_id, file |-> file]
        /\ Becomes(export_translated_transcript(transcript, scale_id, file))

\* after __init__: logged in, no transcript attribute yet
Init ==
    /\ transcript = NoAttr
    /\ call = [op |-> "__init__"]
    /\ outcome = Returned(None)
    /\ io = NoIO
    /\ passed = None

Next ==
    \/ Call_get_grade_records
    \/ Call_get_iaa
    \/ Call_get_gpa
    \/ Call_export_translated_transcript

Spec == Init /\ [][Next]_vars

(***************************************************************************)
(* The static method _gpa on its own: a grade and a registered scale are   *)
(* drawn, the conversion table is built as get_gpa builds it, and _gpa is  *)
(* applied.                                                                *)
(***************************************************************************)
\* the decimal scale 0.00 .. 10.00, in hundredths
GradeDomain == 0 .. 1000

Grades == (0 - Margin) .. (1000 + Margin)

InitGpa ==
    /\ transcript = NoAttr
    /\ call \in {[op |-> "_gpa", grade |-> g, scale_id |-> s,
                  conversion |-> Conversion(s)] :
                     g \in Grades, s \in DOMAIN scale}
    /\ outcome = Pending
    /\ io = NoIO
    /\ passed = None

Call_gpa ==
    /\ outcome = Pending
    /\ outcome' = _gpa(call.grade, call.conversion)
    /\ UNCHANGED <<transcript, call, io, passed>>

NextGpa == Call_gpa

SpecGpa == InitGpa /\ [][NextGpa]_vars

(***************************************************************************)
(* Properties of the conversion, checked under SpecGpa                     *)
(***************************************************************************)
Applied == call.op = "_gpa" /\ outcome # Pending

\* the entries of the table whose threshold is the greatest one <= g
Best(g, conversion) ==
    {i \in 1 .. Len(conversion) :
        /\ conversion[i].decimal <= g
        /\ \A j \in 1 .. Len(conversion) :
               conversion[j].decimal <= g
                   => conversion[j].decimal <= conversion[i].decimal}

\* C1: on every registered scale and for every grade g with 0 <= g <= 10,
\* exactly one entry has the greatest threshold <= g, and _gpa returns that
\* entry's gpa value; a grade equal to a threshold gets that threshold's own
\* value.
C1_GreatestThreshold ==
    (Applied /\ call.grade \in GradeDomain) =>
        /\ Cardinality(Best(call.grade, call.conversion)) = 1
        /\ \A i \in Best(call.grade, call.conversion) :
               outcome = Returned(call.conversion[i].grade)
        /\ \A i \in 1 .. Len(call.conversion) :
               call.conversion[i].decimal = call.grade
                   => outcome = Returned(call.conversion[i].grade)

C1_Witness ==
    /\ Applied
    /\ call.scale_id = 2
    /\ call.grade = 960
    /\ outcome = Returned(39)

\* C2 as stated: on scale 1 the grade 9 converts to 4.0 and the grade 8.9
\* converts to 2.
C2_Original ==
    (Applied /\ call.scale_id = 1) =>
        /\ call.grade = 900 => outcome = Returned(40)
        /\ call.grade = 890 => outcome = Returned(20)

\* C2 amended: on scale 1 the grade 9 converts to 4.0 and the grade 8.9
\* converts to 3.0, the value of the threshold 7, which is the greatest
\* threshold of scale 1 that is <= 8.9.
C2_Amended ==
    (Applied /\ call.scale_id = 1) =>
        /\ call.grade = 900 => outcome = Returned(40)
        /\ call.grade = 890 => outcome = Returned(30)

C2_Witness ==
    /\ Applied
    /\ call.scale_id = 1
    /\ call.grade = 890
    /\ outcome = Returned(30)

\* C3: on every registered scale, for grades g1 <= g2 within 0..10 both
\* conversions return and convert(g1) <= convert(g2).
C3_Monotonic ==
    (Applied /\ call.grade \in GradeDomain) =>
        /\ outcome.kind = "returned"
        /\ \A g1 \in GradeDomain :
               g1 <= call.grade =>
                   /\ _gpa(g1, call.conversion).kind = "returned"
                   /\ _gpa(g1, call.conversion).value <= outcome.value

C3_Witness ==
    /\ Applied
    /\ call.scale_id = 3
    /\ call.grade = 829
    /\ outcome = Returned(27)
    /\ _gpa(830, call.conversion) = Returned(30)

\* C4: a grade outside 0..10 (negative, or above 10) makes the conversion
\* fail with an error; it is never answered with a bucket's value.
C4_DomainError ==
    (Applied /\ call.grade \notin GradeDomain) => outcome.kind = "raised"

\* C8: each scale table lists strictly decreasing thresholds, holds only
\* thresholds and gpa values >= 0, and ends with the threshold 0, so every
\* grade >= 0 has an entry.
C8_ScaleEntries ==
    call.op = "_gpa" =>
        LET c == call.conversion
        IN /\ Len(c) > 0
           /\ \A i \in 1 .. Len(c) - 1 : c[i].decimal > c[i + 1].decimal
           /\ \A i \in 1 .. Len(c) : c[i].decimal >= 0 /\ c[i].grade >= 0
           /\ c[Len(c)].decimal = 0
           /\ call.grade >= 0 => Best(call.grade, c) # {}

C8_Witness ==
    /\ Applied
    /\ call.scale_id = 2
    /\ Len(call.conversion) = 32
    /\ call.grade = 0
    /\ outcome = Returned(0)

(***************************************************************************)
(* Properties of the instance's operations, checked under Spec             *)
(***************************************************************************)
\* an averaging call that had a transcript to work on
Averaging ==
    /\ call.op \in {"get_iaa", "get_gpa"}
    /\ call.transcript # None \/ transcript # NoAttr

\* the transcript an averaging call worked on
Used == IF call.transcript = None THEN transcript ELSE call.transcript

RECURSIVE Total(_, _)
Total(f, n) == IF n = 0 THEN 0 ELSE Total(f, n - 1) + f[n]

TotalCredits(frame) ==
    Total([i \in 1 .. Len(frame.rows) |-> frame.rows[i].credits],
          Len(frame.rows))

\* the value of the entry with the greatest threshold <= g
ValueAt(g, conversion) ==
    conversion[CHOOSE i \in Best(g, conversion) : TRUE].grade

\* C5: get_iaa and get_gpa end in an error whenever the transcript they work
\* on has no records or a total credit weight of zero; they print no average
\* then.
C5_EmptyTranscript ==
    (Averaging /\ (Len(Used.rows) = 0 \/ TotalCredits(Used) = 0)) =>
        outcome.kind = "raised"

C5_Witness ==
    /\ call.op = "get_iaa"
    /\ call.transcript = None
    /\ Len(transcript.rows) = 2
    /\ TotalCredits(transcript) = 0
    /\ outcome = Raised("ZeroDivisionError")

\* C6: for a transcript with records, positive total credits and grades >= 0
\* and a registered scale, get_gpa prints the quotient of
\* sum(credits_i * convert(grade_i)) by sum(credits_i) over exactly the
\* transcript's records; for [{credits 3, grade 9.5}, {credits 1, grade 5.0}]
\* on scale 1 the quotient is 3.5 (35 tenths).
C6_WeightedGpa ==
    (/\ Averaging
     /\ call.op = "get_gpa"
     /\ call.scale_id \in DOMAIN scale
     /\ Len(Used.rows) > 0
     /\ TotalCredits(Used) > 0
     /\ \A i \in 1 .. Len(Used.rows) : Used.rows[i].grade >= 0) =>
        LET n == Len(Used.rows)
            weighted == [i \in 1 .. n |->
                            Used.rows[i].credits
                            * ValueAt(Used.rows[i].grade, scale[call.scale_id])]
        IN /\ outcome.kind = "printed"
           /\ outcome.label = "GPA"
           /\ outcome.num = Total(weighted, n)
           /\ outcome.den = TotalCredits(Used)
           /\ (/\ call.scale_id = 1
               /\ n = 2
               /\ Used.rows[1].credits = 54 /\ Used.rows[1].grade = 950
               /\ Used.rows[2].credits = 18 /\ Used.rows[2].grade = 500)
                  => outcome.num = 35 * outcome.den

C6_Witness ==
    /\ call.op = "get_gpa"
    /\ call.scale_id = 1
    /\ call.transcript = None
    /\ Len(transcript.rows) = 2
    /\ transcript.rows[1].credits = 54 /\ transcript.rows[1].grade = 950
    /\ transcript.rows[2].credits = 18 /\ transcript.rows[2].grade = 500
    /\ outcome = Printed("GPA", 2520, 72)

\* C7: get_gpa and export_translated_transcript called with a scale id that
\* is not registered raise at once: no fetch, the stored transcript as it
\* was, no file read or written, the passed transcript untouched.
C7_UnknownScale ==
    [][(/\ call'.op \in {"get_gpa", "export_translated_transcript"}
        /\ call'.scale_id \notin DOMAIN scale) =>
           /\ outcome' = Raised("KeyError")
           /\ transcript' = transcript
           /\ io' = NoIO
           /\ call'.op = "get_gpa" => passed' = call'.transcript]_vars

C7_Witness ==
    /\ call.op = "get_gpa"
    /\ call.scale_id = 99
    /\ call.transcript = None
    /\ transcript = NoAttr
    /\ outcome = Raised("KeyError")
    /\ io = NoIO

\* the translation the file registers for a code: its first row with that
\* code, or the empty string
Registered(file, code) ==
    IF \E k \in 1 .. Len(file.rows) : file.rows[k].code = code
    THEN LET first == CHOOSE k \in 1 .. Len(file.rows) :
                          /\ file.rows[k].code = code
                          /\ \A j \in 1 .. k - 1 : file.rows[j].code # code
         IN file.rows[first].subjects
    ELSE ""

\* C9: the sheet export_translated_transcript writes has one row per record
\* of the transcript, in the transcript's order, each with the record's
\* code, credits, grade and subject, gpa = convert(grade, scale) and
\* translated = the translation the file registers for the code, or "" when
\* it registers none; and it writes the sheet whenever the scale is
\* registered, the file is readable and the transcript has records.
C9_Enrichment ==
    call.op = "export_translated_transcript" =>
        /\ (/\ call.scale_id \in DOMAIN scale
            /\ call.file # None
            /\ transcript # NoAttr
            /\ Len(transcript.rows) > 0
            /\ \A i \in 1 .. Len(transcript.rows) :
                   transcript.rows[i].grade >= 0) => io.written # None
        /\ io.written # None =>
              /\ Len(io.written.rows) = Len(transcript.rows)
              /\ \A i \in 1 .. Len(transcript.rows) :
                    LET r == transcript.rows[i]
                    IN io.written.rows[i] =
                          [code |-> r.code, credits |-> r.credits,
                           grade |-> r.grade, subject |-> r.subject,
                           gpa |-> ValueAt(r.grade, scale[call.scale_id]),
                           translated |-> Registered(call.file, r.code)]

C9_Witness ==
    /\ call.op = "export_translated_transcript"
    /\ call.scale_id = 3
    /\ call.file # None
    /\ Len(call.file.rows) = 1
    /\ io.written # None
    /\ Len(io.written.rows) = 2
    /\ io.written.rows[1].code = "B" /\ io.written.rows[1].translated = ""
    /\ io.written.rows[1].gpa = 0
    /\ io.written.rows[2].code = "A"
    /\ io.written.rows[2].translated = "course A"
    /\ io.written.rows[2].gpa = 40

\* C10: a get_iaa, get_gpa or export_translated_transcript call made while a
\* transcript is stored leaves the stored transcript as it was and fetches
\* nothing; get_iaa and get_gpa fetch only when called without a transcript
\* while none is stored, export never; and a passed transcript is left as it
\* was passed.
C10_ReadOnly ==
    [][call'.op \in {"get_iaa", "get_gpa", "export_translated_transcript"} =>
           /\ transcript # NoAttr =>
                  transcript' = transcript /\ ~io'.fetched
           /\ io'.fetched =>
                  /\ call'.op \in {"get_iaa", "get_gpa"}
                  /\ call'.transcript = None
                  /\ transcript = NoAttr
           /\ call'.op \in {"get_iaa", "get_gpa"} =>
                  passed' = call'.transcript]_vars

C10_Witness ==
    /\ call.op = "export_translated_transcript"
    /\ outcome = [kind |-> "saved"]
    /\ transcript # NoAttr
    /\ transcript.columns = RecordColumns
    /\ io.written.columns = ExportColumns
    /\ ~io.fetched

====
